---- MODULE Spec2Model ----
(***************************************************************************)
(* QuickShip: the fan-out / fan-in aggregation engine                      *)
(* (pkg/aggregator/aggregator.go), the simulated backends                  *)
(* (pkg/services, second half of pkg/models/models.go) and the HTTP entry  *)
(* point GetCartSummary (main.go).                                         *)
(*                                                                         *)
(* One request is followed from GetCartSummary to the HTTP response.  Each *)
(* goroutine (the handler, one worker per registered backend, the join     *)
(* goroutine, the context's deadline timer) is a process whose position is *)
(* a pc value.  Time is model time in milliseconds: computation takes no   *)
(* time, and the clock moves to the next timer expiry only when every      *)
(* goroutine is blocked.                                                   *)
(*                                                                         *)
(* Values: a float64 is written as its decimal text ("49.99", "0"), an int *)
(* as its decimal text ("120", "0"); an interface{} value is a record of   *)
(* its dynamic type and that text.  A nil *ServiceError is the empty       *)
(* sequence, a non-nil one a one-element sequence.                         *)
(***************************************************************************)
EXTENDS Integers, Sequences, FiniteSets, TLC

VARIABLES
    productID,      \* mux.Vars(r)["sku"]
    ServiceMap,     \* services.ServiceMap: key -> the backend registered for it
    now,            \* model time, ms
    start,          \* GetCartSummary: start := time.Now()
    pcMain,         \* position of the handler goroutine
    ctxDeadline,    \* the deadline of ctx (-1 before context.WithTimeout)
    ctxErr,         \* ctx.Err(): "nil", "DeadlineExceeded" or "Canceled"
    numWorkers,     \* len(services.ServiceMap) as read by FanOutAndAggregate
    resultChan,     \* buffered contents of resultChan, oldest first
    chanClosed,     \* close(resultChan) has run
    wg,             \* the WaitGroup counter
    worker,         \* key -> the state of the goroutine running executeService
    pcJoin,         \* position of the join goroutine
    summary,        \* FanOutAndAggregate's summary
    serviceErrors,  \* FanOutAndAggregate's serviceErrors
    fatalErr,       \* the error FanOutAndAggregate returned
    observed,       \* history: the outcomes the draining loop received, in order
    httpStatus,     \* the status code written by GetCartSummary (0: none yet)
    body,           \* the Summary GetCartSummary encoded (<<>>: none)
    rounds          \* two direct calls of FanOutAndAggregate: call -> its locals

vars == <<productID, ServiceMap, now, start, pcMain, ctxDeadline, ctxErr,
          numWorkers, resultChan, chanClosed, wg, worker, pcJoin, summary,
          serviceErrors, fatalErr, observed, httpStatus, body, rounds>>

---------------------------------------------------------------------------
(* Program constants *)

aggregationTimeout == 450

priceDelay == 200

priceDelayTimeoutSKU == 500

inventoryDelay == 400

promotionsDelay == 50

StatusSuccess == "SUCCESS"

StatusTimeout == "TIMEOUT"

StatusError == "ERROR"

StatusFallback == "FALLBACK"

StatusUnset == ""

fallbackPrice == "0"

fallbackStock == "0"

fallbackPromotion == "No promotions available"

DeadlineExceeded == "DeadlineExceeded"

Canceled == "Canceled"

BackendError == "backend server responded with 503"

NilValue == [t |-> "nil", v |-> ""]

---------------------------------------------------------------------------
(* The registry and the inputs explored *)

ExpectedKeys == {"price", "stock", "promotion"}

ExtraKey == "shipping"

Keys == ExpectedKeys \cup {ExtraKey}

SKUs == {"TEST-SKU-SUCCESS", "TEST-SKU-TIMEOUT"}

\* The arguments a Fetch*Simulates function hands to simulatedCall.
FetchPriceSimulates(id) ==
    [delay |-> IF id = "TEST-SKU-TIMEOUT" THEN priceDelayTimeoutSKU ELSE priceDelay,
     fail  |-> FALSE,
     value |-> [t |-> "float64", v |-> "49.99"]]

\* Mutant: the inventory backend reports the stock as an int64.
FetchInventorySimulatesInt64(id) ==
    [delay |-> inventoryDelay, fail |-> FALSE, value |-> [t |-> "int64", v |-> "120"]]

FetchInventorySimulates(id) ==
    [delay |-> inventoryDelay, fail |-> FALSE, value |-> [t |-> "int", v |-> "120"]]

FetchPromotionsSimulates(id) ==
    [delay |-> promotionsDelay, fail |-> FALSE,
     value |-> [t |-> "string", v |-> "Buy 1 Get 1 Half Off!"]]

\* A backend registered under a key the fan-in loop has no case for.
FetchShippingSimulates(id) ==
    [delay |-> priceDelay, fail |-> FALSE, value |-> [t |-> "string", v |-> "2 days"]]

RegisteredFn(k, id) ==
    CASE k = "price"     -> FetchPriceSimulates(id)
      [] k = "stock"     -> FetchInventorySimulates(id)
      [] k = "promotion" -> FetchPromotionsSimulates(id)
      [] OTHER           -> FetchShippingSimulates(id)

\* How a registered backend may deviate from its mock, through the delay and
\* fail arguments of simulatedCall: "fail" reports the 503 at the mock's
\* delay, "tie" completes at the very instant of the deadline, "slowfail" would
\* report the 503 after the deadline.  (A slow backend that would succeed is
\* FetchPriceSimulates for TEST-SKU-TIMEOUT.)
Behaviours == {"mock", "fail", "tie", "tiefail", "slowfail"}

ExtraBehaviours == {"mock", "fail"}

Backend(k, id, b) ==
    LET m == RegisteredFn(k, id) IN
    [delay |-> CASE b \in {"tie", "tiefail"}   -> aggregationTimeout
                 [] b = "slowfail"             -> priceDelayTimeoutSKU
                 [] OTHER                      -> m.delay,
     fail  |-> b \in {"fail", "tiefail", "slowfail"},
     value |-> m.value]

\* The registries explored: every subset of the keys, every behaviour per key.
Registries(id) ==
    UNION { { [k \in S |-> Backend(k, id, f[k])] :
                f \in { g \in [S -> Behaviours] :
                          ExtraKey \in S => g[ExtraKey] \in ExtraBehaviours } } :
            S \in SUBSET Keys }

Registered == DOMAIN ServiceMap

---------------------------------------------------------------------------
(* Initial state: the server is up, a request for productID has arrived *)

NoResult == [Key |-> "", Value |-> NilValue, Status |-> StatusUnset, Error |-> <<>>]

IdleWorker ==
    [pc |-> "none", timer |-> -1, branch |-> "", value |-> NilValue, err |-> "nil",
     result |-> NoResult]

ZeroSummary ==
    [ProductID |-> "", Price |-> "0", PriceStatus |-> StatusUnset,
     Stock |-> "0", StockStatus |-> StatusUnset,
     Promotion |-> "", PromotionStatus |-> StatusUnset,
     TotalTimeMs |-> 0, ServiceErrors |-> <<>>]

Init ==
    /\ productID \in SKUs
    /\ ServiceMap \in Registries(productID)
    /\ now = 0
    /\ start = -1
    /\ pcMain = "idle"
    /\ ctxDeadline = -1
    /\ ctxErr = "nil"
    /\ numWorkers = 0
    /\ resultChan = <<>>
    /\ chanClosed = FALSE
    /\ wg = 0
    /\ worker = [k \in Keys |-> IdleWorker]
    /\ pcJoin = "none"
    /\ summary = ZeroSummary
    /\ serviceErrors = <<>>
    /\ fatalErr = "unset"
    /\ observed = <<>>
    /\ httpStatus = 0
    /\ body = <<>>
    /\ rounds = <<>>

---------------------------------------------------------------------------
(* GetCartSummary, first half, and the set-up of FanOutAndAggregate *)

\* main.go 20-27: start := time.Now(); the handler calls the engine.
GetCartSummaryStart ==
    /\ pcMain = "idle"
    /\ start' = now
    /\ pcMain' = "called"
    /\ UNCHANGED <<rounds, productID, ServiceMap, now, ctxDeadline, ctxErr, numWorkers,
                   resultChan, chanClosed, wg, worker, pcJoin, summary,
                   serviceErrors, fatalErr, observed, httpStatus, body>>

\* Mutant: an unbuffered channel.
ChanCapUnbuffered(n) == 0

\* The capacity make() gives resultChan for n workers.
ChanCap(n) == n

\* aggregator.go 56-64: the context, the channel, wg.Add(numWorkers).
FanOutBegin ==
    /\ pcMain = "called"
    /\ ctxDeadline' = now + aggregationTimeout
    /\ ctxErr' = "nil"
    /\ numWorkers' = Cardinality(Registered)
    /\ resultChan' = <<>>
    /\ chanClosed' = FALSE
    /\ wg' = Cardinality(Registered)
    /\ pcMain' = "fanout"
    /\ UNCHANGED <<rounds, productID, ServiceMap, now, start, worker, pcJoin, summary,
                   serviceErrors, fatalErr, observed, httpStatus, body>>

\* aggregator.go 65-69: one iteration of the range over ServiceMap (Go fixes
\* no iteration order): go executeService(ctx, key, productID, fn, ...).
Launch(k) ==
    /\ pcMain = "fanout"
    /\ k \in Registered
    /\ worker[k].pc = "none"
    /\ worker' = [worker EXCEPT ![k].pc = "spawned"]
    /\ UNCHANGED <<rounds, productID, ServiceMap, now, start, pcMain, ctxDeadline, ctxErr,
                   numWorkers, resultChan, chanClosed, wg, pcJoin, summary,
                   serviceErrors, fatalErr, observed, httpStatus, body>>

\* aggregator.go 72-79: the range is over; go func(){wg.Wait(); close()}();
\* summary := CartSummary{ProductID: productID}; serviceErrors is nil.
SpawnJoin ==
    /\ pcMain = "fanout"
    /\ \A k \in Registered : worker[k].pc # "none"
    /\ pcJoin' = "waiting"
    /\ summary' = [ZeroSummary EXCEPT !.ProductID = productID]
    /\ serviceErrors' = <<>>
    /\ pcMain' = "drain"
    /\ UNCHANGED <<rounds, productID, ServiceMap, now, start, ctxDeadline, ctxErr,
                   numWorkers, resultChan, chanClosed, wg, worker, fatalErr,
                   observed, httpStatus, body>>

---------------------------------------------------------------------------
(* The context's deadline timer *)

\* Mutant: the first expiry renews the deadline instead of cancelling ctx.
DeadlineFireRenews ==
    /\ ctxDeadline >= 0
    /\ ctxErr = "nil"
    /\ now >= ctxDeadline
    /\ IF ctxDeadline = start + aggregationTimeout
       THEN ctxDeadline' = ctxDeadline + aggregationTimeout /\ UNCHANGED ctxErr
       ELSE ctxErr' = DeadlineExceeded /\ UNCHANGED ctxDeadline
    /\ UNCHANGED <<rounds, productID, ServiceMap, now, start, pcMain,
                   numWorkers, resultChan, chanClosed, wg, worker, pcJoin, summary,
                   serviceErrors, fatalErr, observed, httpStatus, body>>

\* context.WithTimeout: at the deadline the timer cancels ctx with
\* DeadlineExceeded, unless ctx was cancelled before.
DeadlineFire ==
    /\ ctxDeadline >= 0
    /\ ctxErr = "nil"
    /\ now >= ctxDeadline
    /\ ctxErr' = DeadlineExceeded
    /\ UNCHANGED <<rounds, productID, ServiceMap, now, start, pcMain, ctxDeadline,
                   numWorkers, resultChan, chanClosed, wg, worker, pcJoin, summary,
                   serviceErrors, fatalErr, observed, httpStatus, body>>

---------------------------------------------------------------------------
(* A worker: executeService and the backend call it makes *)

\* Mutant: the calls run one after the other, a worker calls fn only when no
\* other call is in flight.
StartCallSequential(k) ==
    /\ worker[k].pc = "spawned"
    /\ \A j \in Keys : worker[j].pc # "select"
    /\ worker' = [worker EXCEPT ![k].pc = "select",
                                ![k].timer = now + ServiceMap[k].delay]
    /\ UNCHANGED <<rounds, productID, ServiceMap, now, start, pcMain, ctxDeadline, ctxErr,
                   numWorkers, resultChan, chanClosed, wg, pcJoin, summary,
                   serviceErrors, fatalErr, observed, httpStatus, body>>

\* executeService 27 and simulatedCall 74-75: the worker calls fn, which
\* starts time.After(delay) and blocks in the select.
StartCall(k) ==
    /\ worker[k].pc = "spawned"
    /\ worker' = [worker EXCEPT ![k].pc = "select",
                                ![k].timer = now + ServiceMap[k].delay]
    /\ UNCHANGED <<rounds, productID, ServiceMap, now, start, pcMain, ctxDeadline, ctxErr,
                   numWorkers, resultChan, chanClosed, wg, pcJoin, summary,
                   serviceErrors, fatalErr, observed, httpStatus, body>>

\* Mutant: the call waits for its delay alone and never looks at ctx.Done()
\* (time.Sleep(delay), as the backends of the first revision did).
ReadyCasesNoCtx(k) == {c \in {"after"} : now >= worker[k].timer}

\* The cases of simulatedCall's select that are ready.
ReadyCases(k) ==
    {c \in {"after"} : now >= worker[k].timer} \cup {c \in {"done"} : ctxErr # "nil"}

\* simulatedCall 74-82: what the call returns from the case the select took.
simulatedCall(call, case, cerr) ==
    IF case = "after"
    THEN IF call.fail
         THEN [value |-> NilValue, err |-> BackendError]
         ELSE [value |-> call.value, err |-> "nil"]
    ELSE [value |-> NilValue, err |-> cerr]

\* Mutant: every non-nil error is taken for a timeout.
IsTimeoutAnyError(err) == err # "nil"

\* executeService 37-43: the classification of a non-nil error.
IsTimeout(err) == err = DeadlineExceeded

\* executeService 28-51: the FetchResult built from what fn returned.
BuildResult(key, value, err) ==
    IF err # "nil"
    THEN [Key    |-> key,
          Value  |-> value,
          Status |-> IF IsTimeout(err) THEN StatusTimeout ELSE StatusError,
          Error  |-> << [ServiceKey |-> key,
                         Err        |-> err,
                         Timeout    |-> IsTimeout(err),
                         Message    |-> IF IsTimeout(err)
                                        THEN "Service execution exceeded the global aggregation timeout"
                                        ELSE "External service call failed"] >>]
    ELSE [Key |-> key, Value |-> value, Status |-> StatusSuccess, Error |-> <<>>]

\* simulatedCall's select takes a ready case (any of them when both are
\* ready); executeService 27-45/50 builds the result.
SelectReturn(k) ==
    /\ worker[k].pc = "select"
    /\ \E c \in ReadyCases(k) :
         LET r == simulatedCall(ServiceMap[k], c, ctxErr) IN
         worker' = [worker EXCEPT ![k].pc = "send",
                                  ![k].branch = c,
                                  ![k].value = r.value,
                                  ![k].err = r.err,
                                  ![k].result = BuildResult(k, r.value, r.err)]
    /\ UNCHANGED <<rounds, productID, ServiceMap, now, start, pcMain, ctxDeadline, ctxErr,
                   numWorkers, resultChan, chanClosed, wg, pcJoin, summary,
                   serviceErrors, fatalErr, observed, httpStatus, body>>

\* executeService 46/51: resultChan <- result.  The send blocks while the
\* buffer is full; a send on a closed channel panics.
Send(k) ==
    /\ worker[k].pc = "send"
    /\ IF chanClosed
       THEN /\ worker' = [worker EXCEPT ![k].pc = "panic"]
            /\ UNCHANGED resultChan
       ELSE /\ Len(resultChan) < ChanCap(numWorkers)
            /\ resultChan' = Append(resultChan, worker[k].result)
            /\ worker' = [worker EXCEPT ![k].pc = "sent"]
    /\ UNCHANGED <<rounds, productID, ServiceMap, now, start, pcMain, ctxDeadline, ctxErr,
                   numWorkers, chanClosed, wg, pcJoin, summary,
                   serviceErrors, fatalErr, observed, httpStatus, body>>

\* Mutant: the worker returns without signalling the WaitGroup.
WgDoneMissing(n) == n

\* The WaitGroup counter after one wg.Done().
WgDone(n) == n - 1

\* executeService 25: the deferred wg.Done() runs as the worker returns.
WorkerDone(k) ==
    /\ worker[k].pc = "sent"
    /\ wg' = WgDone(wg)
    /\ worker' = [worker EXCEPT ![k].pc = "done"]
    /\ UNCHANGED <<rounds, productID, ServiceMap, now, start, pcMain, ctxDeadline, ctxErr,
                   numWorkers, resultChan, chanClosed, pcJoin, summary,
                   serviceErrors, fatalErr, observed, httpStatus, body>>

---------------------------------------------------------------------------
(* The join goroutine *)

\* Mutant: the join goroutine closes the channel without wg.Wait().
JoinCloseNoWait ==
    /\ pcJoin = "waiting"
    /\ chanClosed' = TRUE
    /\ pcJoin' = "done"
    /\ UNCHANGED <<rounds, productID, ServiceMap, now, start, pcMain, ctxDeadline, ctxErr,
                   numWorkers, resultChan, wg, worker, summary,
                   serviceErrors, fatalErr, observed, httpStatus, body>>

\* aggregator.go 73-74: wg.Wait() returns when the counter is zero, then
\* close(resultChan).
JoinClose ==
    /\ pcJoin = "waiting"
    /\ wg = 0
    /\ chanClosed' = TRUE
    /\ pcJoin' = "done"
    /\ UNCHANGED <<rounds, productID, ServiceMap, now, start, pcMain, ctxDeadline, ctxErr,
                   numWorkers, resultChan, wg, worker, summary,
                   serviceErrors, fatalErr, observed, httpStatus, body>>

---------------------------------------------------------------------------
(* The draining loop (fan-in) and the return of FanOutAndAggregate *)

\* Mutant: the error of an outcome under an unexpected key is dropped.
AppendErrorExpectedOnly(errs, res) ==
    IF res.Error # <<>> /\ res.Key \in ExpectedKeys THEN errs \o res.Error ELSE errs

\* Mutant: only timeouts are recorded.
AppendErrorTimeoutOnly(errs, res) ==
    IF res.Error # <<>> /\ res.Error[1].Timeout THEN errs \o res.Error ELSE errs

\* aggregator.go 89-92: a non-nil res.Error is appended to serviceErrors.
AppendError(errs, res) == IF res.Error # <<>> THEN errs \o res.Error ELSE errs

\* The dynamic type each case of the switch asserts (lines 98, 106, 114).
AssertedType(key) ==
    CASE key = "price"     -> "float64"
      [] key = "stock"     -> "int"
      [] key = "promotion" -> "string"
      [] OTHER             -> "any"

\* A failing type assertion res.Value.(T) panics.
AssertionPanics(res) ==
    /\ res.Key \in ExpectedKeys
    /\ res.Status = StatusSuccess
    /\ res.Value.t # AssertedType(res.Key)

\* Mutant: a success assigns the value and sets no status (the first
\* revision's switch).
FanInNoStatus(sum, res) ==
    CASE res.Key = "price" ->
           IF res.Status = StatusSuccess
           THEN [sum EXCEPT !.Price = res.Value.v]
           ELSE [sum EXCEPT !.Price = fallbackPrice, !.PriceStatus = StatusFallback]
      [] res.Key = "stock" ->
           IF res.Status = StatusSuccess
           THEN [sum EXCEPT !.Stock = res.Value.v]
           ELSE [sum EXCEPT !.Stock = fallbackStock, !.StockStatus = StatusFallback]
      [] res.Key = "promotion" ->
           IF res.Status = StatusSuccess
           THEN [sum EXCEPT !.Promotion = res.Value.v]
           ELSE [sum EXCEPT !.Promotion = fallbackPromotion,
                            !.PromotionStatus = StatusFallback]
      [] OTHER -> sum

\* Mutant: a failure sets the status FALLBACK and leaves the field as it is.
FanInNoFallbackValue(sum, res) ==
    CASE res.Key = "price" ->
           IF res.Status = StatusSuccess
           THEN [sum EXCEPT !.Price = res.Value.v, !.PriceStatus = StatusSuccess]
           ELSE [sum EXCEPT !.PriceStatus = StatusFallback]
      [] res.Key = "stock" ->
           IF res.Status = StatusSuccess
           THEN [sum EXCEPT !.Stock = res.Value.v, !.StockStatus = StatusSuccess]
           ELSE [sum EXCEPT !.StockStatus = StatusFallback]
      [] res.Key = "promotion" ->
           IF res.Status = StatusSuccess
           THEN [sum EXCEPT !.Promotion = res.Value.v, !.PromotionStatus = StatusSuccess]
           ELSE [sum EXCEPT !.PromotionStatus = StatusFallback]
      [] OTHER -> sum

\* Mutant: fail-fast, a failed outcome resets every field to its fallback.
FanInFailFast(sum, res) ==
    IF res.Status = StatusSuccess
    THEN CASE res.Key = "price" ->
                [sum EXCEPT !.Price = res.Value.v, !.PriceStatus = StatusSuccess]
           [] res.Key = "stock" ->
                [sum EXCEPT !.Stock = res.Value.v, !.StockStatus = StatusSuccess]
           [] res.Key = "promotion" ->
                [sum EXCEPT !.Promotion = res.Value.v, !.PromotionStatus = StatusSuccess]
           [] OTHER -> sum
    ELSE [sum EXCEPT !.Price = fallbackPrice, !.PriceStatus = StatusFallback,
                     !.Stock = fallbackStock, !.StockStatus = StatusFallback,
                     !.Promotion = fallbackPromotion,
                     !.PromotionStatus = StatusFallback]

\* aggregator.go 95-122: the switch on res.Key.
FanIn(sum, res) ==
    CASE res.Key = "price" ->
           IF res.Status = StatusSuccess
           THEN [sum EXCEPT !.Price = res.Value.v, !.PriceStatus = StatusSuccess]
           ELSE [sum EXCEPT !.Price = fallbackPrice, !.PriceStatus = StatusFallback]
      [] res.Key = "stock" ->
           IF res.Status = StatusSuccess
           THEN [sum EXCEPT !.Stock = res.Value.v, !.StockStatus = StatusSuccess]
           ELSE [sum EXCEPT !.Stock = fallbackStock, !.StockStatus = StatusFallback]
      [] res.Key = "promotion" ->
           IF res.Status = StatusSuccess
           THEN [sum EXCEPT !.Promotion = res.Value.v, !.PromotionStatus = StatusSuccess]
           ELSE [sum EXCEPT !.Promotion = fallbackPromotion,
                            !.PromotionStatus = StatusFallback]
      [] OTHER -> sum

\* aggregator.go 88-123: one iteration of `for res := range resultChan`.
\* A receive takes the oldest buffered outcome, also after close().
DrainReceive ==
    /\ pcMain = "drain"
    /\ resultChan # <<>>
    /\ LET res == Head(resultChan) IN
         /\ resultChan' = Tail(resultChan)
         /\ observed' = Append(observed, res)
         /\ serviceErrors' = AppendError(serviceErrors, res)
         /\ IF AssertionPanics(res)
            THEN pcMain' = "panic" /\ UNCHANGED summary
            ELSE summary' = FanIn(summary, res) /\ UNCHANGED pcMain
    /\ UNCHANGED <<rounds, productID, ServiceMap, now, start, ctxDeadline, ctxErr,
                   numWorkers, chanClosed, wg, worker, pcJoin, fatalErr,
                   httpStatus, body>>

\* Mutant: a round with failed backends returns an error.
ReturnedErrorOnFailure(sum, errs) ==
    IF errs # <<>> THEN "aggregation failed" ELSE "nil"

\* Mutant: a round over an empty registry returns an error.
ReturnedErrorOnEmptyRegistry(sum, errs) ==
    IF numWorkers = 0 THEN "no backends registered" ELSE "nil"

\* aggregator.go 126: the error FanOutAndAggregate returns with the summary.
ReturnedError(sum, errs) == "nil"

\* Mutant: the loop stops as soon as the channel is empty, closed or not
\* (a polling loop instead of `range`).
DrainEndOnEmpty ==
    /\ pcMain = "drain"
    /\ resultChan = <<>>
    /\ summary' = [summary EXCEPT !.ServiceErrors = serviceErrors]
    /\ fatalErr' = "nil"
    /\ ctxErr' = IF ctxErr = "nil" THEN Canceled ELSE ctxErr
    /\ pcMain' = "returned"
    /\ UNCHANGED <<rounds, productID, ServiceMap, now, start, ctxDeadline,
                   numWorkers, resultChan, chanClosed, wg, worker, pcJoin,
                   serviceErrors, observed, httpStatus, body>>

\* aggregator.go 88, 125-126 and the deferred cancel() of line 57: the range
\* ends when the channel is closed and empty; the summary gets the error
\* list; cancel() cancels ctx unless the deadline did so before.
DrainEnd ==
    /\ pcMain = "drain"
    /\ resultChan = <<>>
    /\ chanClosed
    /\ summary' = [summary EXCEPT !.ServiceErrors = serviceErrors]
    /\ fatalErr' = ReturnedError(summary, serviceErrors)
    /\ ctxErr' = IF ctxErr = "nil" THEN Canceled ELSE ctxErr
    /\ pcMain' = "returned"
    /\ UNCHANGED <<rounds, productID, ServiceMap, now, start, ctxDeadline,
                   numWorkers, resultChan, chanClosed, wg, worker, pcJoin,
                   serviceErrors, observed, httpStatus, body>>

---------------------------------------------------------------------------
(* GetCartSummary, second half *)

StatusOK == 200

StatusInternalServerError == 500

\* Mutant: a partial failure is answered with 500.
ResponseStatusStrict(err) ==
    IF err # "nil" \/ serviceErrors # <<>> THEN StatusInternalServerError ELSE StatusOK

\* main.go 29-32 and 42: the status code the handler writes.
ResponseStatus(err) == IF err # "nil" THEN StatusInternalServerError ELSE StatusOK

\* Mutant: the handler drops the error list before encoding the summary.
RespondDropsErrors ==
    /\ pcMain = "returned"
    /\ httpStatus' = ResponseStatus(fatalErr)
    /\ body' = IF fatalErr # "nil"
               THEN <<>>
               ELSE << [summary EXCEPT !.TotalTimeMs = now - start,
                                       !.ServiceErrors = <<>>] >>
    /\ pcMain' = "responded"
    /\ UNCHANGED <<rounds, productID, ServiceMap, now, start, ctxDeadline, ctxErr,
                   numWorkers, resultChan, chanClosed, wg, worker, pcJoin, summary,
                   serviceErrors, fatalErr, observed>>

\* main.go 29-45: http.Error on a non-nil error; otherwise the elapsed time
\* is stamped and the summary encoded with status 200.
Respond ==
    /\ pcMain = "returned"
    /\ httpStatus' = ResponseStatus(fatalErr)
    /\ body' = IF fatalErr # "nil"
               THEN <<>>
               ELSE << [summary EXCEPT !.TotalTimeMs = now - start] >>
    /\ pcMain' = "responded"
    /\ UNCHANGED <<rounds, productID, ServiceMap, now, start, ctxDeadline, ctxErr,
                   numWorkers, resultChan, chanClosed, wg, worker, pcJoin, summary,
                   serviceErrors, fatalErr, observed>>

---------------------------------------------------------------------------
(* Time *)

\* Every step of a goroutine.
Step ==
    \/ GetCartSummaryStart
    \/ FanOutBegin
    \/ \E k \in Keys : Launch(k)
    \/ SpawnJoin
    \/ DeadlineFire
    \/ \E k \in Keys : StartCall(k)
    \/ \E k \in Keys : SelectReturn(k)
    \/ \E k \in Keys : Send(k)
    \/ \E k \in Keys : WorkerDone(k)
    \/ JoinClose
    \/ DrainReceive
    \/ DrainEnd
    \/ Respond

\* The expiry times of the timers that are armed and have not fired.
PendingTimers ==
    {ctxDeadline : x \in {1} \cap {IF ctxDeadline >= 0 /\ ctxErr = "nil" THEN 1 ELSE 0}}
    \cup {worker[k].timer : k \in {j \in Keys : worker[j].pc = "select"}}

Min(S) == CHOOSE x \in S : \A y \in S : x <= y

\* Time passes, up to the next timer expiry, when no goroutine can step.
Tick ==
    /\ ~ENABLED Step
    /\ \E t \in PendingTimers : t > now
    /\ now' = Min({t \in PendingTimers : t > now})
    /\ UNCHANGED <<rounds, productID, ServiceMap, start, pcMain, ctxDeadline, ctxErr,
                   numWorkers, resultChan, chanClosed, wg, worker, pcJoin, summary,
                   serviceErrors, fatalErr, observed, httpStatus, body>>

Next ==
    \/ GetCartSummaryStart
    \/ FanOutBegin
    \/ \E k \in Keys : Launch(k)
    \/ SpawnJoin
    \/ DeadlineFire
    \/ \E k \in Keys : StartCall(k)
    \/ \E k \in Keys : SelectReturn(k)
    \/ \E k \in Keys : Send(k)
    \/ \E k \in Keys : WorkerDone(k)
    \/ JoinClose
    \/ DrainReceive
    \/ DrainEnd
    \/ Respond
    \/ Tick

Spec == Init /\ [][Next]_vars

\* The Go scheduler runs every runnable goroutine and the runtime fires every
\* due timer: a step that stays possible is eventually taken.
FairSpec == Spec /\ WF_vars(Next)

---------------------------------------------------------------------------
(* Vocabulary of the properties *)

\* FanOutAndAggregate has returned to the handler.
Returned == pcMain \in {"returned", "responded"}

\* The field of a Summary that belongs to an expected key, and its status.
Field(sum, k) ==
    CASE k = "price" -> sum.Price [] k = "stock" -> sum.Stock [] OTHER -> sum.Promotion

FieldStatus(sum, k) ==
    CASE k = "price" -> sum.PriceStatus
      [] k = "stock" -> sum.StockStatus
      [] OTHER       -> sum.PromotionStatus

Fallback(k) ==
    CASE k = "price" -> fallbackPrice [] k = "stock" -> fallbackStock
      [] OTHER -> fallbackPromotion

\* The backend of k completed on its own before the context was done and
\* reported no error / reported a domain error; the call of k was ended by
\* the context.
Succeeded(k) == worker[k].branch = "after" /\ ~ServiceMap[k].fail

DomainFailed(k) == worker[k].branch = "after" /\ ServiceMap[k].fail

CutOff(k) == worker[k].branch = "done"

SeqToSet(q) == {q[i] : i \in DOMAIN q}

\* The StructuredErrors of a Summary that belong to key k.
ErrorsOf(sum, k) == {i \in DOMAIN sum.ServiceErrors : sum.ServiceErrors[i].ServiceKey = k}

\* The registry of the repository: the three mocks.
MockRegistry(id) == [k \in ExpectedKeys |-> RegisteredFn(k, id)]

---------------------------------------------------------------------------
(* C1 *)

\* C1: in every interleaving the draining loop never observes a key twice nor
\* a key that is not registered, and when FanOutAndAggregate returns it has
\* observed exactly N = len(ServiceMap) outcomes, one for each registered key.
C1_ExactlyOneOutcomePerKey ==
    /\ \A i, j \in DOMAIN observed : i # j => observed[i].Key # observed[j].Key
    /\ \A i \in DOMAIN observed : observed[i].Key \in Registered
    /\ Returned => /\ Len(observed) = Cardinality(Registered)
                   /\ {observed[i].Key : i \in DOMAIN observed} = Registered

\* A round of four backends has returned, the outcome of the backend launched
\* for "stock" having arrived before the one for "price".
C1_Witness ==
    /\ Returned
    /\ Cardinality(Registered) = 4
    /\ Len(observed) = 4
    /\ \E i, j \in DOMAIN observed :
         i < j /\ observed[i].Key = "stock" /\ observed[j].Key = "price"

---------------------------------------------------------------------------
(* C2 *)

\* C2: under fair scheduling every round ends: every worker terminates, the
\* join goroutine closes the channel, the draining loop ends and
\* FanOutAndAggregate returns, whatever the backends do.
C2_AlwaysReturns ==
    <>( /\ \A k \in Registered : worker[k].pc = "done"
        /\ pcJoin = "done" /\ chanClosed
        /\ Returned )

\* A round has returned in which one backend succeeded, one reported a domain
\* error and one was still pending at the deadline.
C2_Witness ==
    /\ Returned
    /\ \E a, b, c \in Registered : Succeeded(a) /\ DomainFailed(b) /\ CutOff(c)
    /\ \A k \in Registered : worker[k].pc = "done"

---------------------------------------------------------------------------
(* C3 *)

\* C3: when FanOutAndAggregate has returned and every registered backend
\* succeeded before the deadline, every field holds the value its backend
\* produced with status SUCCESS and the error list is empty; the registered
\* mocks (no SKU that slows the price) always end so, with price 49.99, stock
\* 120 and promotion "Buy 1 Get 1 Half Off!".
C3_AllSucceed ==
    Returned =>
      /\ (\A k \in Registered : Succeeded(k)) =>
           /\ \A k \in Registered \cap ExpectedKeys :
                /\ Field(summary, k) = ServiceMap[k].value.v
                /\ FieldStatus(summary, k) = StatusSuccess
           /\ summary.ServiceErrors = <<>>
      /\ (ServiceMap = MockRegistry(productID) /\ productID # "TEST-SKU-TIMEOUT") =>
           summary = [ProductID |-> productID,
                      Price |-> "49.99", PriceStatus |-> StatusSuccess,
                      Stock |-> "120", StockStatus |-> StatusSuccess,
                      Promotion |-> "Buy 1 Get 1 Half Off!",
                      PromotionStatus |-> StatusSuccess,
                      TotalTimeMs |-> 0, ServiceErrors |-> <<>>]

\* The round of TestGetCartSummary_Success has returned.
C3_Witness ==
    /\ Returned
    /\ productID = "TEST-SKU-SUCCESS"
    /\ ServiceMap = MockRegistry(productID)
    /\ \A k \in Registered : Succeeded(k)
    /\ summary.Price = "49.99"

---------------------------------------------------------------------------
(* C4 *)

\* C4: when FanOutAndAggregate has returned, every expected backend whose
\* delay exceeds the shared deadline, and every one whose call the context
\* ended, has field status FALLBACK, the fixed fallback constant in its field
\* and exactly one StructuredError in the error list, with is_timeout = true.
C4_TimeoutFallsBack ==
    Returned =>
      \A k \in Registered \cap ExpectedKeys :
        (ServiceMap[k].delay > aggregationTimeout \/ CutOff(k)) =>
          /\ FieldStatus(summary, k) = StatusFallback
          /\ Field(summary, k) = Fallback(k)
          /\ Cardinality(ErrorsOf(summary, k)) = 1
          /\ \A i \in ErrorsOf(summary, k) : summary.ServiceErrors[i].Timeout

\* The round of TestGetCartSummary_TimeoutAndFallback has returned: the price
\* backend, at 500ms against 450ms, was cut off by the deadline.
C4_Witness ==
    /\ Returned
    /\ productID = "TEST-SKU-TIMEOUT"
    /\ ServiceMap = MockRegistry(productID)
    /\ CutOff("price")
    /\ summary.PriceStatus = StatusFallback
    /\ Len(summary.ServiceErrors) = 1

---------------------------------------------------------------------------
(* C5 *)

\* C5: when FanOutAndAggregate has returned, every expected backend that
\* reported a domain error before the context was done has field status
\* FALLBACK, the fixed fallback constant in its field (not the value that came
\* with the error) and exactly one StructuredError, with is_timeout = false.
C5_DomainErrorFallsBack ==
    Returned =>
      \A k \in Registered \cap ExpectedKeys :
        DomainFailed(k) =>
          /\ FieldStatus(summary, k) = StatusFallback
          /\ Field(summary, k) = Fallback(k)
          /\ Field(summary, k) # worker[k].value.v
          /\ Cardinality(ErrorsOf(summary, k)) = 1
          /\ \A i \in ErrorsOf(summary, k) : ~summary.ServiceErrors[i].Timeout

\* A round has returned in which the promotion backend answered 503 at 50ms.
C5_Witness ==
    /\ Returned
    /\ "promotion" \in Registered
    /\ DomainFailed("promotion")
    /\ worker["promotion"].timer < ctxDeadline
    /\ summary.Promotion = fallbackPromotion

---------------------------------------------------------------------------
(* C6 *)

\* Every StructuredError there is: in a worker's result, in the channel, in
\* serviceErrors, in the summary and in the response.
AllErrors ==
    UNION {SeqToSet(worker[k].result.Error) : k \in Keys}
    \cup UNION {SeqToSet(resultChan[i].Error) : i \in DOMAIN resultChan}
    \cup SeqToSet(serviceErrors)
    \cup SeqToSet(summary.ServiceErrors)
    \cup UNION {SeqToSet(body[i].ServiceErrors) : i \in DOMAIN body}

\* C6: for every StructuredError, is_timeout is true exactly when the call of
\* its backend was ended by the context at or after the deadline; an error the
\* backend itself reported (the select took the backend's completion, also
\* when the deadline was due at the same instant) has is_timeout = false.
C6_TimeoutIffDeadline ==
    \A e \in AllErrors :
      LET k == e.ServiceKey IN
      /\ k \in Registered
      /\ e.Timeout <=> (CutOff(k) /\ now >= ctxDeadline)
      /\ ~e.Timeout <=> DomainFailed(k)

\* The backend's completion and the deadline were due at the same instant for
\* two backends that would report 503: the select of one took the completion
\* (is_timeout = false), the select of the other the context (is_timeout =
\* true); both errors are in the returned summary.
C6_Witness ==
    /\ Returned
    /\ \E a, b \in Registered :
         /\ ServiceMap[a].delay = aggregationTimeout /\ ServiceMap[a].fail
         /\ ServiceMap[b].delay = aggregationTimeout /\ ServiceMap[b].fail
         /\ DomainFailed(a) /\ CutOff(b)
         /\ \E i, j \in DOMAIN summary.ServiceErrors :
              /\ summary.ServiceErrors[i].ServiceKey = a
              /\ ~summary.ServiceErrors[i].Timeout
              /\ summary.ServiceErrors[j].ServiceKey = b
              /\ summary.ServiceErrors[j].Timeout

---------------------------------------------------------------------------
(* C7 *)

\* C7: the round is never aborted (no goroutine panics), and when
\* FanOutAndAggregate has returned every expected backend that succeeded
\* before the deadline has its produced value and status SUCCESS in the
\* summary, whichever of the other backends failed and however.
C7_FailSoft ==
    /\ pcMain # "panic"
    /\ \A k \in Keys : worker[k].pc # "panic"
    /\ Returned =>
         \A k \in Registered \cap ExpectedKeys :
           Succeeded(k) =>
             /\ Field(summary, k) = ServiceMap[k].value.v
             /\ FieldStatus(summary, k) = StatusSuccess
             /\ ErrorsOf(summary, k) = {}

\* A round has returned in which the stock backend succeeded although its
\* outcome was drained after a domain error and after a timeout of two other
\* backends.
C7_Witness ==
    /\ Returned
    /\ "stock" \in Registered /\ Succeeded("stock")
    /\ summary.Stock = "120"
    /\ \E i, j, l \in DOMAIN observed :
         /\ observed[i].Status = StatusError
         /\ observed[j].Status = StatusTimeout
         /\ observed[l].Key = "stock"
         /\ i < l /\ j < l

---------------------------------------------------------------------------
(* C8 *)

\* C8: whatever number and mix of backends fail, FanOutAndAggregate returns a
\* nil error: the failures are in the per-field statuses and the error list.
C8_NoFatalErrorOnBackendFailure ==
    Returned =>
      /\ fatalErr = "nil"
      /\ Len(summary.ServiceErrors) =
           Cardinality({k \in Registered : worker[k].result.Status # StatusSuccess})
      /\ \A k \in Registered \cap ExpectedKeys :
           worker[k].result.Status # StatusSuccess =>
             FieldStatus(summary, k) = StatusFallback

\* A round has returned in which all three expected backends failed, by
\* domain error and by timeout.
C8_Witness ==
    /\ Returned
    /\ ExpectedKeys \subseteq Registered
    /\ \A k \in Registered : ~Succeeded(k)
    /\ \E a, b \in Registered : DomainFailed(a) /\ CutOff(b)
    /\ fatalErr = "nil"

---------------------------------------------------------------------------
(* C9 *)

\* C9 as claimed: a round over an empty registry returns a non-nil (fatal)
\* error.
C9_EmptyRegistryIsFatal ==
    (Returned /\ Registered = {}) => fatalErr # "nil"

\* C9 as the code has it: FanOutAndAggregate has no failing path; over an
\* empty registry it launches no worker, the channel is closed at once, and it
\* returns a nil error with a Summary that holds the product id, unset
\* statuses, zero fields and no errors, which GetCartSummary answers with 200.
C9_EmptyRegistryReturnsZeroSummary ==
    /\ Returned => fatalErr = "nil"
    /\ (Returned /\ Registered = {}) =>
         /\ observed = <<>>
         /\ summary = [ZeroSummary EXCEPT !.ProductID = productID]
    /\ (pcMain = "responded" /\ Registered = {}) => httpStatus = StatusOK

\* The round over the empty registry has been answered.
C9_Witness ==
    /\ pcMain = "responded"
    /\ Registered = {}
    /\ numWorkers = 0
    /\ chanClosed

---------------------------------------------------------------------------
(* C10 *)

\* C10: GetCartSummary answers 500 exactly when FanOutAndAggregate returned a
\* non-nil error, and otherwise 200 with the returned Summary (elapsed time
\* stamped), whatever mix of successes, domain errors and timeouts occurred.
C10_ResponseStatus ==
    pcMain = "responded" =>
      /\ httpStatus = StatusInternalServerError <=> fatalErr # "nil"
      /\ fatalErr = "nil" =>
           /\ httpStatus = StatusOK
           /\ Len(body) = 1
           /\ [body[1] EXCEPT !.TotalTimeMs = 0] = summary

\* A request has been answered 200 although one backend reported a domain
\* error and another timed out.
C10_Witness ==
    /\ pcMain = "responded"
    /\ httpStatus = StatusOK
    /\ \E a, b, c \in Registered : DomainFailed(a) /\ CutOff(b) /\ Succeeded(c)
    /\ Len(body) = 1
    /\ Len(body[1].ServiceErrors) >= 2

---------------------------------------------------------------------------
(* C11 *)

\* The summary carries the outcome res: the field of its key has the value and
\* status the fan-in gives that outcome, and its error, if any, is in the list.
Applied(sum, res) ==
    /\ res.Key \in ExpectedKeys =>
         IF res.Status = StatusSuccess
         THEN /\ Field(sum, res.Key) = res.Value.v
              /\ FieldStatus(sum, res.Key) = StatusSuccess
         ELSE /\ Field(sum, res.Key) = Fallback(res.Key)
              /\ FieldStatus(sum, res.Key) = StatusFallback
    /\ \A i \in DOMAIN res.Error : res.Error[i] \in SeqToSet(sum.ServiceErrors)

\* C11: at the moment FanOutAndAggregate returns, and ever after, the channel
\* is empty and the outcome of every registered backend has been received by
\* the draining loop and applied to the Summary; the loop never ends while an
\* outcome is still to come.
C11_CompleteBeforeReturn ==
    Returned =>
      /\ resultChan = <<>>
      /\ \A k \in Registered :
           /\ worker[k].pc = "done"
           /\ \E i \in DOMAIN observed : observed[i] = worker[k].result
           /\ Applied(summary, worker[k].result)

\* The engine has returned after the last outcome, that of a backend cut off
\* at the deadline, arrived alone, long after the others were drained.
C11_Witness ==
    /\ pcMain = "returned"
    /\ Len(observed) = 3
    /\ observed[3].Status = StatusTimeout
    /\ observed[1].Status = StatusSuccess
    /\ Applied(summary, observed[3])

---------------------------------------------------------------------------
(* C12 *)

\* C12: in model time FanOutAndAggregate returns no later than the shared
\* deadline, 450ms after the request started, however long the delay of any
\* backend is; the elapsed time the handler stamps is at most 450.
C12_ReturnsByDeadline ==
    /\ Returned => /\ now <= ctxDeadline
                   /\ now - start <= aggregationTimeout
    /\ \A i \in DOMAIN body : body[i].TotalTimeMs <= aggregationTimeout

\* A round with a backend of delay 500ms has returned at 450ms.
C12_Witness ==
    /\ Returned
    /\ \E k \in Registered : ServiceMap[k].delay > aggregationTimeout
    /\ now - start = aggregationTimeout

---------------------------------------------------------------------------
(* C13 *)

Max(S) == CHOOSE x \in S : \A y \in S : x >= y

RECURSIVE Sum(_)
Sum(S) == IF S = {} THEN 0 ELSE LET x == CHOOSE y \in S : TRUE IN x + Sum(S \ {x})

\* C13: when every backend of a non-empty registry succeeded, FanOutAndAggregate
\* returns at the time of the slowest backend, the maximum of the delays (400ms
\* for the three mocks), not at their sum (650ms).
C13_SlowestNotSum ==
    (Returned /\ Registered # {} /\ \A k \in Registered : Succeeded(k)) =>
      /\ now - start = Max({ServiceMap[k].delay : k \in Registered})
      /\ \A k \in Registered : worker[k].timer = start + ServiceMap[k].delay
      /\ ServiceMap = MockRegistry(productID) =>
           /\ now - start = inventoryDelay
           /\ now - start < Sum({ServiceMap[k].delay : k \in Registered})

\* The round of the three mocks has been answered with an elapsed time of
\* 400ms, while the delays add up to 650ms.
C13_Witness ==
    /\ pcMain = "responded"
    /\ ServiceMap = MockRegistry("TEST-SKU-SUCCESS")
    /\ \A k \in Registered : Succeeded(k)
    /\ body[1].TotalTimeMs = 400
    /\ Sum({ServiceMap[k].delay : k \in Registered}) = 650

---------------------------------------------------------------------------
(* C15 *)

\* The draining loop takes an outcome whose key the switch has no case for.
DrainsUnexpected ==
    /\ pcMain = "drain"
    /\ resultChan # <<>>
    /\ Head(resultChan).Key \notin ExpectedKeys
    /\ resultChan' = Tail(resultChan)

\* C15 as claimed: draining an outcome with an unexpected key changes nothing
\* of the Summary, the error list included, and causes no fatal error.
C15_UnexpectedLeavesNoTrace ==
    [][DrainsUnexpected =>
         /\ summary' = summary
         /\ serviceErrors' = serviceErrors
         /\ pcMain' = "drain" /\ fatalErr' = fatalErr]_vars

\* C15 as the code has it: draining an outcome with an unexpected key changes
\* no field and no status of the Summary and causes no fatal error, but the
\* error it carries, if any, is appended to the error list like any other and
\* is in the returned Summary.
C15_UnexpectedKeepsItsError ==
    /\ [][DrainsUnexpected =>
            /\ summary' = summary
            /\ serviceErrors' = serviceErrors \o Head(resultChan).Error
            /\ pcMain' = "drain" /\ fatalErr' = fatalErr]_vars
    /\ [](Returned =>
            /\ fatalErr = "nil"
            /\ \A k \in Registered \ ExpectedKeys :
                 Cardinality(ErrorsOf(summary, k)) = Len(worker[k].result.Error))

\* A round has returned whose "shipping" backend answered 503: the three
\* fields are those of the mocks and the error list holds the shipping error.
C15_Witness ==
    /\ Returned
    /\ ExtraKey \in Registered /\ DomainFailed(ExtraKey)
    /\ \A k \in Registered \cap ExpectedKeys : Succeeded(k)
    /\ Len(summary.ServiceErrors) = 1
    /\ summary.ServiceErrors[1].ServiceKey = ExtraKey

---------------------------------------------------------------------------
(* C16 *)

\* The expected keys whose field status is FALLBACK.
FallbackFields(sum) == {k \in ExpectedKeys : FieldStatus(sum, k) = StatusFallback}

\* The error list of the returned Summary holds exactly one StructuredError
\* for every outcome with status TIMEOUT or ERROR and none for a SUCCESS.
OneErrorPerFailure ==
    /\ \A k \in Registered :
         Cardinality(ErrorsOf(summary, k)) =
           IF worker[k].result.Status \in {StatusTimeout, StatusError} THEN 1 ELSE 0
    /\ \A i \in DOMAIN summary.ServiceErrors :
         summary.ServiceErrors[i].ServiceKey \in Registered

---------------------------------------------------------------------------
(* C17 *)

\* C17: the channel never holds more outcomes than its capacity, the number of
\* workers; a worker that is about to send finds room (it does not block) and
\* the channel open; the channel grows only by a worker's single send, after
\* which that worker never sends again; it shrinks only by a receive of the
\* draining loop, which leaves every worker as it is.
C17_SendOnceNeverBlocks ==
    /\ [](/\ Len(resultChan) <= numWorkers
          /\ pcMain \notin {"idle", "called"} => numWorkers = Cardinality(Registered)
          /\ \A k \in Keys :
               worker[k].pc = "send" =>
                 /\ ~chanClosed
                 /\ Len(resultChan) < numWorkers
                 /\ ENABLED Send(k))
    /\ [][/\ Len(resultChan') > Len(resultChan) =>
               \E k \in Keys : /\ worker[k].pc = "send"
                               /\ worker'[k].pc = "sent"
                               /\ resultChan' = Append(resultChan, worker[k].result)
          /\ \A k \in Keys :
               worker[k].pc \in {"sent", "done"} => worker'[k].pc \in {"sent", "done"}
          /\ Len(resultChan') < Len(resultChan) =>
               /\ pcMain = "drain"
               /\ resultChan' = Tail(resultChan)
               /\ observed' = Append(observed, Head(resultChan))
               /\ worker' = worker]_vars

\* All three workers have sent before the draining loop received anything:
\* the channel is full.
C17_Witness ==
    /\ numWorkers = 3
    /\ Len(resultChan) = 3
    /\ observed = <<>>
    /\ \A k \in Registered : worker[k].pc \in {"sent", "done"}

---------------------------------------------------------------------------
(* C18 *)

\* The call of worker k has returned.
CallOver(k) == worker[k].pc \in {"send", "sent", "done"}

\* C18: the deadline of a round, once set, never changes; a call is ended by
\* the context only at the instant of that deadline, by its expiry, and gives a
\* TIMEOUT outcome; no call is in flight after the deadline, and a call whose
\* own completion was due after the deadline was ended by it; a call that
\* completed before the deadline keeps the outcome of its own completion.
C18_OneSharedDeadline ==
    /\ [][/\ ctxDeadline >= 0 => ctxDeadline' = ctxDeadline
          /\ \A k \in Keys :
               (worker[k].pc = "select" /\ worker'[k].pc # "select"
                  /\ worker'[k].branch = "done") =>
                 /\ now = ctxDeadline
                 /\ ctxErr = DeadlineExceeded
                 /\ worker'[k].result.Status = StatusTimeout
          /\ \A k \in Keys :
               CallOver(k) => worker'[k].result = worker[k].result]_vars
    /\ [](\A k \in Registered :
            /\ worker[k].pc = "select" => now <= ctxDeadline
            /\ (CallOver(k) /\ worker[k].timer > ctxDeadline) =>
                 CutOff(k) /\ worker[k].result.Status = StatusTimeout
            /\ (CallOver(k) /\ worker[k].timer < ctxDeadline) =>
                 /\ worker[k].branch = "after"
                 /\ worker[k].result.Status # StatusTimeout)

\* At the instant of the deadline two calls in flight have both been ended
\* with a TIMEOUT outcome, while a backend that completed earlier keeps its
\* SUCCESS.
C18_Witness ==
    /\ now = ctxDeadline
    /\ \E a, b, c \in Registered :
         /\ a # b
         /\ CutOff(a) /\ worker[a].result.Status = StatusTimeout
         /\ CutOff(b) /\ worker[b].result.Status = StatusTimeout
         /\ worker[c].timer < ctxDeadline
         /\ worker[c].result.Status = StatusSuccess

---------------------------------------------------------------------------
(* C20 *)

\* C20: once FanOutAndAggregate has returned no goroutine of the round is
\* left: every worker has finished its call and its send and signalled the
\* WaitGroup, whose counter is zero, and the join goroutine has closed the
\* channel; no worker has panicked.
C20_NoGoroutineOutlivesRound ==
    Returned =>
      /\ \A k \in Registered : worker[k].pc = "done"
      /\ \A k \in Keys \ Registered : worker[k].pc = "none"
      /\ wg = 0
      /\ pcJoin = "done"
      /\ chanClosed

\* A round of four backends, one of them cut off at the deadline, has returned
\* with all its goroutines finished.
C20_Witness ==
    /\ pcMain = "returned"
    /\ Cardinality(Registered) = 4
    /\ \E k \in Registered : CutOff(k)
    /\ \A k \in Registered : worker[k].pc = "done"
    /\ pcJoin = "done"

---------------------------------------------------------------------------
(* Two calls of FanOutAndAggregate in one process.  Everything the function  *)
(* declares (ctx, resultChan, wg, summary, serviceErrors, the goroutines it  *)
(* starts) exists once per call and is a field of rounds[r]; the calls share *)
(* the package variable ServiceMap and the clock.  A call may arrive at any  *)
(* time; apart from that, time passes as above.                              *)

Rounds == {"A", "B"}

\* The registries of the two-call runs: every non-empty proper subset of the
\* expected keys (the runs of one call above cover the full registry), each
\* backend its mock, or answering 503, or answering 503 after the deadline.
DuoBehaviours == {"mock", "fail", "slowfail"}

DuoRegistries(id) ==
    UNION { { [k \in S |-> Backend(k, id, f[k])] : f \in [S -> DuoBehaviours] } :
            S \in (SUBSET ExpectedKeys) \ {{}, ExpectedKeys} }

\* The locals of a call that has not started.
IdleRound(id) ==
    [id |-> id, pc |-> "idle", start |-> -1, deadline |-> -1, ctxErr |-> "nil",
     n |-> 0, chan |-> <<>>, closed |-> FALSE, wg |-> 0,
     w |-> [k \in ExpectedKeys |-> IdleWorker], join |-> "none",
     summary |-> ZeroSummary, errs |-> <<>>, ret |-> "unset", seen |-> <<>>]

\* Both calls are for the same product: FetchPriceSimulates reads the id, and
\* the registry is one for the process.
DuoInit ==
    /\ productID \in SKUs
    /\ ServiceMap \in DuoRegistries(productID)
    /\ rounds = [r \in Rounds |-> IdleRound(productID)]
    /\ now = 0
    /\ start = -1
    /\ pcMain = "off"
    /\ ctxDeadline = -1
    /\ ctxErr = "nil"
    /\ numWorkers = 0
    /\ resultChan = <<>>
    /\ chanClosed = FALSE
    /\ wg = 0
    /\ worker = [k \in Keys |-> IdleWorker]
    /\ pcJoin = "none"
    /\ summary = ZeroSummary
    /\ serviceErrors = <<>>
    /\ fatalErr = "unset"
    /\ observed = <<>>
    /\ httpStatus = 0
    /\ body = <<>>

\* What a step of a call leaves alone.
DuoFrame ==
    UNCHANGED <<productID, ServiceMap, now, start, pcMain, ctxDeadline, ctxErr,
                numWorkers, resultChan, chanClosed, wg, worker, pcJoin, summary,
                serviceErrors, fatalErr, observed, httpStatus, body>>

\* Mutant: resultChan is a package-level channel, the one of call "A".
ChanOfShared(r) == "A"

\* aggregator.go 60: the channel the workers of call r send to and its
\* draining loop ranges over is the one call r made.
ChanOf(r) == r

\* aggregator.go 56-64.
RoundBegin(r) ==
    /\ rounds[r].pc = "idle"
    /\ rounds' = [rounds EXCEPT ![r].start = now,
                                ![r].deadline = now + aggregationTimeout,
                                ![r].n = Cardinality(Registered),
                                ![r].wg = Cardinality(Registered),
                                ![r].pc = "fanout"]
    /\ DuoFrame

\* aggregator.go 65-69.
RoundLaunch(r, k) ==
    /\ rounds[r].pc = "fanout"
    /\ k \in Registered
    /\ rounds[r].w[k].pc = "none"
    /\ rounds' = [rounds EXCEPT ![r].w[k].pc = "spawned"]
    /\ DuoFrame

\* aggregator.go 72-79.
RoundSpawnJoin(r) ==
    /\ rounds[r].pc = "fanout"
    /\ \A k \in Registered : rounds[r].w[k].pc # "none"
    /\ rounds' = [rounds EXCEPT ![r].join = "waiting",
                                ![r].summary = [ZeroSummary EXCEPT !.ProductID = rounds[r].id],
                                ![r].errs = <<>>,
                                ![r].pc = "drain"]
    /\ DuoFrame

\* context.WithTimeout: the deadline timer of call r.
RoundDeadlineFire(r) ==
    /\ rounds[r].deadline >= 0
    /\ rounds[r].ctxErr = "nil"
    /\ now >= rounds[r].deadline
    /\ rounds' = [rounds EXCEPT ![r].ctxErr = DeadlineExceeded]
    /\ DuoFrame

\* Mutant: a backend answers at a fixed time of day, not a fixed time after it
\* is called.
RoundStartCallAbsolute(r, k) ==
    /\ rounds[r].w[k].pc = "spawned"
    /\ rounds' = [rounds EXCEPT ![r].w[k].pc = "select",
                                ![r].w[k].timer = ServiceMap[k].delay]
    /\ DuoFrame

\* executeService 27, simulatedCall 74-75.
RoundStartCall(r, k) ==
    /\ rounds[r].w[k].pc = "spawned"
    /\ rounds' = [rounds EXCEPT ![r].w[k].pc = "select",
                                ![r].w[k].timer = now + ServiceMap[k].delay]
    /\ DuoFrame

\* The ready cases of the select of worker k of call r: its own time.After
\* and the Done() of the ctx of its call.
RoundReadyCases(r, k) ==
    {c \in {"after"} : now >= rounds[r].w[k].timer}
    \cup {c \in {"done"} : rounds[r].ctxErr # "nil"}

\* simulatedCall 74-82, executeService 27-45/50.
RoundSelectReturn(r, k) ==
    /\ rounds[r].w[k].pc = "select"
    /\ \E c \in RoundReadyCases(r, k) :
         LET res == simulatedCall(ServiceMap[k], c, rounds[r].ctxErr) IN
         rounds' = [rounds EXCEPT ![r].w[k].pc = "send",
                                  ![r].w[k].branch = c,
                                  ![r].w[k].value = res.value,
                                  ![r].w[k].err = res.err,
                                  ![r].w[k].result = BuildResult(k, res.value, res.err)]
    /\ DuoFrame

\* executeService 46/51.  An element of a channel carries, beside the
\* FetchResult, the call whose worker sent it (a history field no step reads).
RoundSend(r, k) ==
    /\ rounds[r].w[k].pc = "send"
    /\ LET c == ChanOf(r) IN
       IF rounds[c].closed
       THEN rounds' = [rounds EXCEPT ![r].w[k].pc = "panic"]
       ELSE /\ Len(rounds[c].chan) < ChanCap(rounds[c].n)
            /\ rounds' = [rounds EXCEPT ![c].chan = Append(@, [from |-> r, res |-> rounds[r].w[k].result]),
                                        ![r].w[k].pc = "sent"]
    /\ DuoFrame

\* executeService 25.
RoundWorkerDone(r, k) ==
    /\ rounds[r].w[k].pc = "sent"
    /\ rounds' = [rounds EXCEPT ![r].wg = WgDone(@), ![r].w[k].pc = "done"]
    /\ DuoFrame

\* aggregator.go 73-74.
RoundJoinClose(r) ==
    /\ rounds[r].join = "waiting"
    /\ rounds[r].wg = 0
    /\ LET c == ChanOf(r) IN
       IF rounds[c].closed
       THEN rounds' = [rounds EXCEPT ![r].join = "panic"]
       ELSE rounds' = [rounds EXCEPT ![c].closed = TRUE, ![r].join = "done"]
    /\ DuoFrame

\* aggregator.go 88-123.
RoundDrainReceive(r) ==
    /\ rounds[r].pc = "drain"
    /\ LET c == ChanOf(r) IN
       /\ rounds[c].chan # <<>>
       /\ LET res == Head(rounds[c].chan).res IN
          rounds' = [rounds EXCEPT
                       ![c].chan = Tail(@),
                       ![r].seen = Append(@, Head(rounds[c].chan)),
                       ![r].errs = AppendError(@, res),
                       ![r].summary = IF AssertionPanics(res) THEN @ ELSE FanIn(@, res),
                       ![r].pc = IF AssertionPanics(res) THEN "panic" ELSE @]
    /\ DuoFrame

\* aggregator.go 88, 125-126 and the deferred cancel().
RoundDrainEnd(r) ==
    /\ rounds[r].pc = "drain"
    /\ rounds[ChanOf(r)].chan = <<>>
    /\ rounds[ChanOf(r)].closed
    /\ rounds' = [rounds EXCEPT
                    ![r].summary = [@ EXCEPT !.ServiceErrors = rounds[r].errs],
                    ![r].ret = ReturnedError(rounds[r].summary, rounds[r].errs),
                    ![r].ctxErr = IF @ = "nil" THEN Canceled ELSE @,
                    ![r].pc = "returned"]
    /\ DuoFrame

\* Every step of a goroutine of a call that has started.
DuoStep ==
    \/ \E r \in Rounds, k \in ExpectedKeys : RoundLaunch(r, k)
    \/ \E r \in Rounds : RoundSpawnJoin(r)
    \/ \E r \in Rounds : RoundDeadlineFire(r)
    \/ \E r \in Rounds, k \in ExpectedKeys : RoundStartCall(r, k)
    \/ \E r \in Rounds, k \in ExpectedKeys : RoundSelectReturn(r, k)
    \/ \E r \in Rounds, k \in ExpectedKeys : RoundSend(r, k)
    \/ \E r \in Rounds, k \in ExpectedKeys : RoundWorkerDone(r, k)
    \/ \E r \in Rounds : RoundJoinClose(r)
    \/ \E r \in Rounds : RoundDrainReceive(r)
    \/ \E r \in Rounds : RoundDrainEnd(r)

DuoPendingTimers ==
    {rounds[r].deadline :
       r \in {q \in Rounds : rounds[q].deadline >= 0 /\ rounds[q].ctxErr = "nil"}}
    \cup UNION { {rounds[r].w[k].timer :
                    k \in {j \in ExpectedKeys : rounds[r].w[j].pc = "select"}} :
                 r \in Rounds }

DuoTick ==
    /\ ~ENABLED DuoStep
    /\ \E t \in DuoPendingTimers : t > now
    /\ now' = Min({t \in DuoPendingTimers : t > now})
    /\ UNCHANGED <<productID, ServiceMap, start, pcMain, ctxDeadline, ctxErr,
                   numWorkers, resultChan, chanClosed, wg, worker, pcJoin, summary,
                   serviceErrors, fatalErr, observed, httpStatus, body, rounds>>

DuoNext ==
    \/ \E r \in Rounds : RoundBegin(r)
    \/ \E r \in Rounds, k \in ExpectedKeys : RoundLaunch(r, k)
    \/ \E r \in Rounds : RoundSpawnJoin(r)
    \/ \E r \in Rounds : RoundDeadlineFire(r)
    \/ \E r \in Rounds, k \in ExpectedKeys : RoundStartCall(r, k)
    \/ \E r \in Rounds, k \in ExpectedKeys : RoundSelectReturn(r, k)
    \/ \E r \in Rounds, k \in ExpectedKeys : RoundSend(r, k)
    \/ \E r \in Rounds, k \in ExpectedKeys : RoundWorkerDone(r, k)
    \/ \E r \in Rounds : RoundJoinClose(r)
    \/ \E r \in Rounds : RoundDrainReceive(r)
    \/ \E r \in Rounds : RoundDrainEnd(r)
    \/ DuoTick

DuoSpec == DuoInit /\ [][DuoNext]_vars

---------------------------------------------------------------------------
(* C14 *)

BothReturned == \A r \in Rounds : rounds[r].pc = "returned"

---------------------------------------------------------------------------
(* C19 *)

\* The outcome of backend k in a call that runs alone: its own completion if
\* its delay is shorter than the timeout of the call, the deadline otherwise
\* (no backend of the two-call runs has a delay equal to the timeout).
AloneResult(k) ==
    LET case == IF ServiceMap[k].delay < aggregationTimeout THEN "after" ELSE "done"
        res  == simulatedCall(ServiceMap[k], case, DeadlineExceeded)
    IN  BuildResult(k, res.value, res.err)

\* The Summaries a draining loop can build from the outcomes of the keys S,
\* received in any order, starting from sum and errs.
RECURSIVE Drained(_, _, _)
Drained(sum, errs, S) ==
    IF S = {}
    THEN {[sum EXCEPT !.ServiceErrors = errs]}
    ELSE UNION {Drained(FanIn(sum, AloneResult(k)), AppendError(errs, AloneResult(k)),
                        S \ {k}) : k \in S}

\* The Summaries a call that runs alone can return.
AloneSummaries == Drained([ZeroSummary EXCEPT !.ProductID = productID], <<>>, Registered)

\* C19: two calls of FanOutAndAggregate in flight together do not interfere.
\* A call's channel holds only what its own workers sent and its draining
\* loop receives only that, each key at most once; its context expires at its
\* own start plus the timeout and not before; its wait counter counts its own
\* workers that have not finished; no goroutine panics on a channel another
\* call closed; and the Summary it returns is one the call could return alone.
C19_CallsDoNotInterfere ==
    \A r \in Rounds :
      LET c == rounds[r] IN
      /\ \A i \in DOMAIN c.chan : c.chan[i].from = r
      /\ \A i \in DOMAIN c.seen :
           /\ c.seen[i].from = r
           /\ c.seen[i].res = c.w[c.seen[i].res.Key].result
      /\ \A i, j \in DOMAIN c.seen : c.seen[i].res.Key = c.seen[j].res.Key => i = j
      /\ c.pc # "idle" => c.deadline = c.start + aggregationTimeout
      /\ c.ctxErr = DeadlineExceeded => now >= c.deadline
      /\ c.pc # "idle" =>
           c.wg = Cardinality({k \in Registered : c.w[k].pc # "done"})
      /\ c.pc # "panic" /\ c.join # "panic"
      /\ \A k \in ExpectedKeys : c.w[k].pc # "panic"
      /\ c.pc = "returned" =>
           /\ c.summary \in AloneSummaries
           /\ c.ret = "nil"
           /\ Len(c.seen) = c.n
           /\ c.closed /\ c.chan = <<>>

\* Call A has returned while call B, started later and before A's deadline,
\* is still draining: B has received an outcome, and a worker of B is still
\* in its backend call.
C19_Witness ==
    /\ rounds["A"].pc = "returned"
    /\ rounds["B"].pc = "drain"
    /\ rounds["B"].start > rounds["A"].start
    /\ rounds["B"].start < rounds["A"].deadline
    /\ rounds["B"].seen # <<>>
    /\ \E k \in Registered : rounds["B"].w[k].pc = "select"

---------------------------------------------------------------------------
(* C21 *)

\* The backend call of worker k returns in this step.
CallReturns(k) == worker[k].pc = "select" /\ worker'[k].pc = "send"

\* C21: every backend call honours the shared deadline.  A call whose delay
\* would end after the deadline returns at the deadline with the
\* deadline-expiry error and no value; a call whose delay ends before the
\* deadline returns at that delay, with its value or its domain error; a call
\* whose delay ends at the very instant of the deadline returns at that
\* instant, one way or the other.
C21_CallHonoursDeadline ==
    [][\A k \in Registered :
         CallReturns(k) =>
           LET due == worker[k].timer
               cut == /\ worker'[k].branch = "done"
                      /\ worker'[k].err = DeadlineExceeded
                      /\ worker'[k].value = NilValue
               own == /\ worker'[k].branch = "after"
                      /\ worker'[k].err = IF ServiceMap[k].fail THEN BackendError ELSE "nil"
                      /\ worker'[k].value = IF ServiceMap[k].fail THEN NilValue
                                            ELSE ServiceMap[k].value
           IN  /\ due = start + ServiceMap[k].delay
               /\ ctxDeadline = start + aggregationTimeout
               /\ due > ctxDeadline => now = ctxDeadline /\ cut
               /\ due < ctxDeadline => now = due /\ own
               /\ due = ctxDeadline => now = due /\ (cut \/ own)]_vars

\* At the deadline a call that was still waiting has just been cut off, and
\* another call of the round had returned earlier, at its own delay.
C21_Witness ==
    /\ now = ctxDeadline
    /\ \E k \in Registered :
         /\ worker[k].pc = "send"
         /\ worker[k].branch = "done"
         /\ worker[k].timer > ctxDeadline
    /\ \E j \in Registered :
         /\ worker[j].branch = "after"
         /\ worker[j].timer < ctxDeadline

---------------------------------------------------------------------------
(* C22 *)

\* C22: elapsed time is stamped by the handler alone, after the engine has
\* returned.  The Summary FanOutAndAggregate builds and returns has
\* TotalTimeMs zero; the Summary GetCartSummary encodes is the returned one
\* with TotalTimeMs set to the time since the request started and every other
\* field as the engine returned it.
C22_ElapsedStampedByCallerOnly ==
    /\ summary.TotalTimeMs = 0
    /\ \A i \in DOMAIN body :
         /\ Returned
         /\ body[i] = [summary EXCEPT !.TotalTimeMs = now - start]

\* A response was written for a round that took time and had a failed
\* backend: the encoded Summary carries the elapsed time and the error list.
C22_Witness ==
    /\ pcMain = "responded"
    /\ body # <<>>
    /\ body[1].TotalTimeMs > 0
    /\ body[1].ServiceErrors # <<>>
    /\ \E k \in ExpectedKeys : FieldStatus(body[1], k) = StatusSuccess

---------------------------------------------------------------------------
(* C23 *)

\* The outcomes sent so far: those received and those still buffered.
SentSoFar == Len(observed) + Len(resultChan)

\* C23: the join goroutine closes resultChan once, and only when every worker
\* has signalled completion; a worker signals only after its send, so no
\* send meets a closed channel and the channel is never closed before all
\* numWorkers outcomes were sent.
C23_ClosedOnceAfterAllSent ==
    /\ [](/\ chanClosed <=> pcJoin = "done"
          /\ chanClosed =>
               /\ wg = 0
               /\ \A k \in Registered : worker[k].pc = "done"
               /\ SentSoFar = numWorkers
          /\ \A k \in Registered :
               /\ worker[k].pc # "panic"
               /\ worker[k].pc = "done" =>
                    worker[k].result \in SeqToSet(observed \o resultChan)
          /\ pcMain \notin {"idle", "called"} =>
               wg = Cardinality({k \in Registered : worker[k].pc # "done"}))
    /\ [][/\ chanClosed => chanClosed'
          /\ chanClosed' # chanClosed =>
               /\ pcJoin = "waiting"
               /\ \A k \in Registered : worker[k].pc = "done"]_vars

\* The channel has just been closed with outcomes still buffered: the
\* draining loop has not yet received all of the three or more outcomes.
C23_Witness ==
    /\ chanClosed
    /\ numWorkers >= 3
    /\ resultChan # <<>>
    /\ pcMain = "drain"

---------------------------------------------------------------------------
(* C24 *)

\* The fields and statuses of a Summary: everything but the error list.
FieldsOf(sum) == [sum EXCEPT !.ServiceErrors = <<>>]

\* The Summary the switch of the draining loop builds from sum when the
\* outcomes q arrive in the order of q.
RECURSIVE FanInAll(_, _)
FanInAll(sum, q) == IF q = <<>> THEN sum ELSE FanInAll(FanIn(sum, Head(q)), Tail(q))

\* The arrival orders of the outcomes q.
Reorderings(q) == {[i \in DOMAIN q |-> q[p[i]]] : p \in Permutations(DOMAIN q)}

\* C24: Summary assembly is keyed, not positional.  The fields and statuses
\* of the returned Summary are those the loop builds from the outcomes of the
\* round in any other arrival order.
C24_KeyedNotPositional ==
    Returned =>
      \A q \in Reorderings(observed) :
         FieldsOf(FanInAll([ZeroSummary EXCEPT !.ProductID = productID], q))
           = FieldsOf(summary)

\* A round of the full registry returned after a success, a failure and a
\* third outcome, the failure having arrived first.
C24_Witness ==
    /\ Returned
    /\ Len(observed) >= 3
    /\ observed[1].Status # StatusSuccess
    /\ observed[1].Key \in ExpectedKeys
    /\ \E i \in DOMAIN observed :
         observed[i].Status = StatusSuccess /\ observed[i].Key \in ExpectedKeys

---------------------------------------------------------------------------
(* C25 *)

\* C25: ctx is cancelled explicitly only by the deferred cancel() as
\* FanOutAndAggregate returns, when every worker is done and the channel is
\* drained; so no backend call ever returns the explicit-cancellation error,
\* and every call the context ended reports the deadline-expiry error, which
\* executeService classifies as a timeout.
C25_NoWorkerSeesExplicitCancel ==
    /\ ctxErr = Canceled =>
         /\ Returned
         /\ resultChan = <<>>
         /\ \A k \in Registered : worker[k].pc = "done"
    /\ \A k \in Registered :
         /\ worker[k].err # Canceled
         /\ worker[k].branch = "done" =>
              /\ worker[k].err = DeadlineExceeded
              /\ worker[k].result.Status = StatusTimeout
              /\ worker[k].result.Error # <<>>
              /\ worker[k].result.Error[1].Timeout
              /\ now >= ctxDeadline

\* FanOutAndAggregate returned before the deadline and its deferred cancel()
\* cancelled ctx: every worker, two or more, had finished its call by then.
C25_Witness ==
    /\ ctxErr = Canceled
    /\ pcMain = "returned"
    /\ numWorkers >= 2
    /\ now < ctxDeadline
    /\ \A k \in Registered : worker[k].branch = "after"

---------------------------------------------------------------------------
(* C26 *)

\* C26: with price, stock and promotion registered, every per-field status of
\* the Summary FanOutAndAggregate returns, and of the Summary the handler
\* encodes, is SUCCESS or FALLBACK; TIMEOUT, ERROR and the unset status are
\* statuses of outcomes only.
C26_FieldStatusSuccessOrFallback ==
    (Returned /\ ExpectedKeys \subseteq Registered) =>
      \A k \in ExpectedKeys :
         /\ FieldStatus(summary, k) \in {StatusSuccess, StatusFallback}
         /\ \A i \in DOMAIN body :
              FieldStatus(body[i], k) \in {StatusSuccess, StatusFallback}

\* A round over the three backends returned after one outcome with status
\* TIMEOUT, one with status ERROR and one with status SUCCESS.
C26_Witness ==
    /\ Returned
    /\ ExpectedKeys \subseteq Registered
    /\ \E i, j, l \in DOMAIN observed :
         /\ observed[i].Status = StatusTimeout
         /\ observed[j].Status = StatusError
         /\ observed[l].Status = StatusSuccess
         /\ {observed[i].Key, observed[j].Key, observed[l].Key} = ExpectedKeys

---------------------------------------------------------------------------
(* C27 *)

\* Every outcome that exists: built by a worker, buffered, or received.
Outcomes ==
    {worker[k].result : k \in {j \in Registered : worker[j].pc \in {"send", "sent", "done"}}}
    \cup SeqToSet(resultChan) \cup SeqToSet(observed)

\* C27: the typed extraction of the fan-in loop never fails.  Every outcome
\* with status SUCCESS under an expected key carries a value of the dynamic
\* type the case of its key asserts (price float64, stock int, promotion
\* string), for every registry and identifier explored, and the draining
\* loop never panics.
C27_TypedExtractionNeverFails ==
    /\ pcMain # "panic"
    /\ \A res \in Outcomes :
         /\ ~AssertionPanics(res)
         /\ (res.Status = StatusSuccess /\ res.Key \in ExpectedKeys) =>
              res.Value.t = AssertedType(res.Key)
         /\ res.Status # StatusSuccess => res.Value = NilValue

\* The draining loop has extracted the values of three SUCCESS outcomes, one
\* of each expected key, and goes on.
C27_Witness ==
    /\ pcMain = "drain"
    /\ {observed[i].Key : i \in {j \in DOMAIN observed :
                                   observed[j].Status = StatusSuccess}} = ExpectedKeys
    /\ \A k \in ExpectedKeys : FieldStatus(summary, k) = StatusSuccess

====
